---- MODULE Spec2Model ----
(***************************************************************************)
(* Aberation_cnn.py: pixel-domain aberration pre-correction.              *)
(*                                                                         *)
(* correct_single_microlens is modelled as a state machine whose program   *)
(* counter walks through the statements of one loop iteration; the         *)
(* feature extractor is a black box, so the loss of an iteration is an     *)
(* input of the model.                                                     *)
(*                                                                         *)
(* Numbers.  A Python float is a record: Num(n) stands for n * 5e-7 (half  *)
(* of the significance epsilon 1e-6 of line 195, so that improvements      *)
(* smaller than, equal to and larger than epsilon all exist), NaN and      *)
(* PosInf are the IEEE special values.  Arithmetic on Num is exact: the    *)
(* rounding of binary floating point is not modelled.                      *)
(*                                                                         *)
(* Tensors.  The subject tensor initial_ei is an identifier of its         *)
(* current value: an optimizer step that changes the pixels yields a       *)
(* value never seen before (identifier + 1), a step with a zero update     *)
(* leaves the identifier alone.  The loss is a function of the value: an   *)
(* unchanged subject tensor yields the loss it yielded before.             *)
(***************************************************************************)
EXTENDS Integers, Sequences, FiniteSets, TLC

VARIABLES
    pc,                 \* position in correct_single_microlens
    exc,                \* the exception that ended the call, "" if none
    outcome,            \* "running", "converged" (break, line 212), "max_epochs"
    epoch,              \* loop variable of line 163, 0-based
    threshold,          \* parameter, a Num
    patience,           \* parameter, an integer
    original_side,      \* height = width of original_ei
    drop,               \* environment: loss decrease per moved step after the free epochs
    initial_ei,         \* identifier of the subject tensor's current value
    current_feat,       \* identifier of the subject value the features were taken from
    loss,               \* line 174
    loss_val,           \* line 182
    loss_history,       \* line 159 / 183
    best_loss,          \* line 160 / 196
    early_stop_counter, \* line 161 / 197 / 200
    preliminary_ei,     \* <<>> while unbound, <<identifier>> once assigned (line 198)
    best_src,           \* history: <<identifier>> of the value evaluated to best_loss
    lr_steps,           \* learning rate = LR * factor^lr_steps
    sched_best,         \* ReduceLROnPlateau.best
    num_bad_epochs,     \* ReduceLROnPlateau.num_bad_epochs
    original_ei,        \* identifier of the target tensor's value
    weights,            \* identifier of the extractor's conv / batch-norm weights
    running_stats,      \* number of updates of the batch-norm running statistics
    pred,               \* AberrationLoss.forward argument (a window of pixels)
    target,             \* AberrationLoss.forward argument
    total_loss          \* AberrationLoss.forward result: <<>> before the call
vars == <<pc, exc, outcome, epoch, threshold, patience, original_side, drop,
          initial_ei, current_feat, loss, loss_val, loss_history, best_loss,
          early_stop_counter, preliminary_ei, best_src, lr_steps, sched_best,
          num_bad_epochs, original_ei, weights, running_stats,
          pred, target, total_loss>>

loopVars == <<pc, exc, outcome, epoch, threshold, patience, original_side, drop,
              initial_ei, current_feat, loss, loss_val, loss_history, best_loss,
              early_stop_counter, preliminary_ei, best_src, lr_steps, sched_best,
              num_bad_epochs, original_ei, weights, running_stats>>

\* what the loop only reads: the target and the extractor's weights
frozenVars == <<original_ei, weights>>

lossVars == <<pred, target, total_loss>>

(***************************************************************************)
(* Program constants                                                       *)
(***************************************************************************)
EPOCHS == 120
EI_SIZE == 104
EPS == 2
DefaultThreshold == 200
DefaultPatience == 10
SchedPatience == 3
RelDen == 10000
LrFloorSteps == 52
OmegaNum == 4
OmegaDen == 5
SsimC1 == 1
SsimC2 == 9
PixelScale == 10000

(***************************************************************************)
(* Bounds of the model                                                     *)
(***************************************************************************)
FreeEpochs == 2
MaxPix == 2

(***************************************************************************)
(* Python floats                                                           *)
(***************************************************************************)
Num(n) == [k |-> "num", v |-> n]
NaN == [k |-> "nan", v |-> 0]
PosInf == [k |-> "inf", v |-> 0]

\* a < b on floats: false when either side is NaN
FLt(a, b) ==
    IF a.k = "nan" \/ b.k = "nan" THEN FALSE
    ELSE IF a.k = "inf" THEN FALSE
    ELSE IF b.k = "inf" THEN TRUE
    ELSE a.v < b.v

\* a - n for a finite n >= 0
FSub(a, n) == IF a.k = "num" THEN Num(a.v - n) ELSE a

Max(a, b) == IF a >= b THEN a ELSE b

(***************************************************************************)
(* Inputs                                                                  *)
(***************************************************************************)
FreeLosses == {Num(0), Num(150), Num(40000), Num(40003), NaN, PosInf}
Thresholds == {Num(0), Num(DefaultThreshold)}
Patiences == {0, 2, DefaultPatience, EPOCHS}
Drops == {0, 1, 3}
Sides == {EI_SIZE, EI_SIZE \div 2}

\* the loss of the next evaluation once the free epochs are over
TailLoss(l) == IF l.k = "num" THEN Num(Max(l.v - drop, 0)) ELSE l

\* the values loss_func can return in this iteration
LossChoices ==
    IF epoch > 0 /\ initial_ei = current_feat THEN {loss}
    ELSE IF epoch > 0 /\ loss.k = "nan" THEN {NaN}
    ELSE IF epoch < FreeEpochs THEN FreeLosses
    ELSE {TailLoss(loss)}

\* the values of the subject tensor after optimizer.step(): a NaN loss has a
\* NaN gradient; in the first iteration the momentum buffer is empty and a
\* loss of 0, the minimum of the loss, has a zero gradient
StepChoices ==
    IF loss.k = "nan" THEN {initial_ei + 1}
    ELSE IF epoch = 0 /\ loss = Num(0) THEN {initial_ei}
    ELSE IF epoch + 1 < FreeEpochs THEN {initial_ei, initial_ei + 1}
    ELSE IF drop = 0 THEN {initial_ei}
    ELSE {initial_ei + 1}

(***************************************************************************)
(* optim.lr_scheduler.ReduceLROnPlateau(optimizer, 'min', factor=0.8,      *)
(* patience=3): threshold=1e-4, threshold_mode='rel', cooldown=0,          *)
(* min_lr=0, eps=1e-8 by default.                                          *)
(***************************************************************************)
\* is_better, mode 'min', threshold_mode 'rel': a < best * (1 - 1e-4)
IsBetter(a, best) ==
    IF a.k = "nan" \/ best.k = "nan" THEN FALSE
    ELSE IF a.k = "inf" THEN FALSE
    ELSE IF best.k = "inf" THEN TRUE
    ELSE a.v * RelDen < best.v * (RelDen - 1)

\* num_bad_epochs after the comparison of step(metrics)
BadEpochs(metrics) ==
    IF IsBetter(metrics, sched_best) THEN 0 ELSE num_bad_epochs + 1

\* the reduction one evaluation early: ">=" for ">"
ReducesAtPatience(metrics) == BadEpochs(metrics) >= SchedPatience

\* step(metrics) reduces the learning rate
Reduces(metrics) == BadEpochs(metrics) > SchedPatience

(***************************************************************************)
(* AberrationLoss.forward on one window of pixels.                         *)
(*                                                                         *)
(* A tensor is a sequence of pixels, each an integer number of 0.01, so    *)
(* that squares are integers of 1e-4 and the SSIM constants                *)
(* C1 = (0.01 * data_range)^2 and C2 = (0.03 * data_range)^2 are 1 and 9.  *)
(* ssim is taken over a single window with uniform weights; the values     *)
(* are exact rationals, numerator and denominator apart.                   *)
(***************************************************************************)
RECURSIVE SumProd(_, _)
SumProd(x, y) ==
    IF x = <<>> THEN 0 ELSE Head(x) * Head(y) + SumProd(Tail(x), Tail(y))

Ones(x) == [i \in 1..Len(x) |-> 1]
Sum(x) == SumProd(x, Ones(x))

\* N^2 * (2*mu_x*mu_y + C1) * N^2 * (2*sigma_xy + C2)
SsimNum(x, y) ==
    LET N == Len(x)
    IN (2 * Sum(x) * Sum(y) + SsimC1 * N * N)
       * (2 * (N * SumProd(x, y) - Sum(x) * Sum(y)) + SsimC2 * N * N)

\* N^2 * (mu_x^2 + mu_y^2 + C1) * N^2 * (sigma_x^2 + sigma_y^2 + C2)
SsimDen(x, y) ==
    LET N == Len(x)
    IN (Sum(x) * Sum(x) + Sum(y) * Sum(y) + SsimC1 * N * N)
       * (N * SumProd(x, x) - Sum(x) * Sum(x)
          + N * SumProd(y, y) - Sum(y) * Sum(y) + SsimC2 * N * N)

\* the sum of squared differences; nn.MSELoss(reduction="mean") divides it by N
SqErr(x, y) == SumProd(x, x) - 2 * SumProd(x, y) + SumProd(y, y)

\* line 120 as in the function of lines 70-90: loss_mse = ssim(pred, target)
LossNumMseIsSsim(x, y) ==
    OmegaNum * (SsimDen(x, y) - SsimNum(x, y)) * Len(x) * PixelScale
    + (OmegaDen - OmegaNum) * SsimNum(x, y) * Len(x) * PixelScale

\* omega * (1 - ssim) + (1 - omega) * mse over the denominator LossDen
LossNum(x, y) ==
    OmegaNum * (SsimDen(x, y) - SsimNum(x, y)) * Len(x) * PixelScale
    + (OmegaDen - OmegaNum) * SsimDen(x, y) * SqErr(x, y)

LossDen(x, y) == OmegaDen * SsimDen(x, y) * Len(x) * PixelScale

NotCalled == [called |-> FALSE, raised |-> FALSE, num |-> 0, den |-> 1]

\* lines 103-125: ssim raises ValueError on tensors of different shapes
ForwardResult(x, y) ==
    IF Len(x) # Len(y)
    THEN [called |-> TRUE, raised |-> TRUE, num |-> 0, den |-> 1]
    ELSE [called |-> TRUE, raised |-> FALSE, num |-> LossNum(x, y), den |-> LossDen(x, y)]

Pixels == 0..MaxPix
Windows == UNION {[1..n -> Pixels] : n \in {1, 2}}

InitLoss ==
    /\ pc = "idle"
    /\ exc = ""
    /\ outcome = "running"
    /\ epoch = 0
    /\ threshold = Num(DefaultThreshold)
    /\ patience = DefaultPatience
    /\ original_side = EI_SIZE
    /\ drop = 0
    /\ initial_ei = 0
    /\ current_feat = 0
    /\ loss = Num(0)
    /\ loss_val = Num(0)
    /\ loss_history = <<>>
    /\ best_loss = PosInf
    /\ early_stop_counter = 0
    /\ preliminary_ei = <<>>
    /\ best_src = <<>>
    /\ lr_steps = 0
    /\ sched_best = PosInf
    /\ num_bad_epochs = 0
    /\ original_ei = 0
    /\ weights = 0
    /\ running_stats = 0
    /\ pred \in Windows
    /\ target \in Windows
    /\ total_loss = NotCalled

LossForward ==
    /\ ~total_loss.called
    /\ total_loss' = ForwardResult(pred, target)
    /\ UNCHANGED <<pred, target>>
    /\ UNCHANGED loopVars

NextLoss == LossForward

SpecLoss == InitLoss /\ [][NextLoss]_vars

(***************************************************************************)
(* correct_single_microlens                                                *)
(***************************************************************************)
Init ==
    /\ pc = "forward"
    /\ exc = ""
    /\ outcome = "running"
    /\ epoch = 0
    /\ threshold \in Thresholds
    /\ patience \in Patiences
    /\ original_side \in Sides
    /\ drop \in Drops
    /\ initial_ei = 0
    /\ current_feat = 0
    /\ loss = Num(0)
    /\ loss_val = Num(0)
    /\ loss_history = <<>>
    /\ best_loss = PosInf
    /\ early_stop_counter = 0
    /\ preliminary_ei = <<>>
    /\ best_src = <<>>
    /\ lr_steps = 0
    /\ sched_best = PosInf
    /\ num_bad_epochs = 0
    /\ original_ei = 0
    /\ weights = 0
    /\ running_stats = 0
    /\ pred = <<>>
    /\ target = <<>>
    /\ total_loss = NotCalled

\* lines 168-174 with the failure of loss_func caught and the iteration carried
\* on with a NaN loss
ForwardSwallows ==
    /\ pc = "forward"
    /\ pc' = "backward"
    /\ current_feat' = initial_ei
    /\ loss' \in (IF original_side # EI_SIZE THEN {NaN} ELSE LossChoices)
    /\ exc' = exc
    /\ UNCHANGED <<outcome, epoch, threshold, patience, original_side, drop,
                   initial_ei, loss_val, loss_history, best_loss,
                   early_stop_counter, preliminary_ei, best_src, lr_steps,
                   sched_best, num_bad_epochs>>
    /\ running_stats' = running_stats + 2
    /\ UNCHANGED frozenVars
    /\ UNCHANGED lossVars

\* lines 165-174: features of both images, loss_func(current_feat, original_feat);
\* each of the two get_features calls runs the batch-norm layers in train mode
\* and so updates their running statistics; ssim raises on tensors of
\* different shapes
Forward ==
    /\ pc = "forward"
    /\ IF original_side # EI_SIZE
       THEN /\ pc' = "raised"
            /\ exc' = "ValueError"
            /\ UNCHANGED <<current_feat, loss>>
       ELSE /\ pc' = "backward"
            /\ current_feat' = initial_ei
            /\ loss' \in LossChoices
            /\ exc' = exc
    /\ UNCHANGED <<outcome, epoch, threshold, patience, original_side, drop,
                   initial_ei, loss_val, loss_history, best_loss,
                   early_stop_counter, preliminary_ei, best_src, lr_steps,
                   sched_best, num_bad_epochs>>
    /\ running_stats' = running_stats + 2
    /\ UNCHANGED frozenVars
    /\ UNCHANGED lossVars

\* line 183 appending best_loss, the other loss at hand, for loss_val
BackwardAppendsBest ==
    /\ pc = "backward"
    /\ pc' = "bookkeep"
    /\ initial_ei' \in StepChoices
    /\ loss_val' = loss
    /\ loss_history' = Append(loss_history, best_loss)
    /\ UNCHANGED <<exc, outcome, epoch, threshold, patience, original_side, drop,
                   current_feat, loss, best_loss, early_stop_counter,
                   preliminary_ei, best_src, lr_steps, sched_best,
                   num_bad_epochs>>
    /\ UNCHANGED <<frozenVars, running_stats>>
    /\ UNCHANGED lossVars

\* line 152 with the extractor's parameters given to the optimizer as well
BackwardStepsWeights ==
    /\ pc = "backward"
    /\ pc' = "bookkeep"
    /\ initial_ei' \in StepChoices
    /\ weights' = weights + 1
    /\ loss_val' = loss
    /\ loss_history' = Append(loss_history, loss)
    /\ UNCHANGED <<exc, outcome, epoch, threshold, patience, original_side, drop,
                   current_feat, loss, best_loss, early_stop_counter,
                   preliminary_ei, best_src, lr_steps, sched_best,
                   num_bad_epochs>>
    /\ UNCHANGED <<original_ei, running_stats>>
    /\ UNCHANGED lossVars

\* lines 177-183: zero_grad, backward, optimizer.step, loss.item(), append
Backward ==
    /\ pc = "backward"
    /\ pc' = "bookkeep"
    /\ initial_ei' \in StepChoices
    /\ loss_val' = loss
    /\ loss_history' = Append(loss_history, loss)
    /\ UNCHANGED <<exc, outcome, epoch, threshold, patience, original_side, drop,
                   current_feat, loss, best_loss, early_stop_counter,
                   preliminary_ei, best_src, lr_steps, sched_best,
                   num_bad_epochs>>
    /\ UNCHANGED <<frozenVars, running_stats>>
    /\ UNCHANGED lossVars

\* line 195 without the significance epsilon
ImprovedNoEps == FLt(loss_val, best_loss)

\* the condition of line 195
Improved == FLt(loss_val, FSub(best_loss, EPS))

\* lines 195-200 with the snapshot of line 198 taken outside the if
BookkeepAlwaysSnapshots ==
    /\ pc = "bookkeep"
    /\ pc' = "sched"
    /\ preliminary_ei' = <<initial_ei>>
    /\ IF Improved
       THEN /\ best_loss' = loss_val
            /\ early_stop_counter' = 0
            /\ best_src' = <<current_feat>>
       ELSE /\ early_stop_counter' = early_stop_counter + 1
            /\ UNCHANGED <<best_loss, best_src>>
    /\ UNCHANGED <<exc, outcome, epoch, threshold, patience, original_side, drop,
                   initial_ei, current_feat, loss, loss_val, loss_history,
                   lr_steps, sched_best, num_bad_epochs>>
    /\ UNCHANGED <<frozenVars, running_stats>>
    /\ UNCHANGED lossVars

\* lines 195-200 without the reset of line 197
BookkeepNoReset ==
    /\ pc = "bookkeep"
    /\ pc' = "sched"
    /\ IF Improved
       THEN /\ best_loss' = loss_val
            /\ early_stop_counter' = early_stop_counter
            /\ preliminary_ei' = <<initial_ei>>
            /\ best_src' = <<current_feat>>
       ELSE /\ early_stop_counter' = early_stop_counter + 1
            /\ UNCHANGED <<best_loss, preliminary_ei, best_src>>
    /\ UNCHANGED <<exc, outcome, epoch, threshold, patience, original_side, drop,
                   initial_ei, current_feat, loss, loss_val, loss_history,
                   lr_steps, sched_best, num_bad_epochs>>
    /\ UNCHANGED <<frozenVars, running_stats>>
    /\ UNCHANGED lossVars

\* lines 195-200
Bookkeep ==
    /\ pc = "bookkeep"
    /\ pc' = "sched"
    /\ IF Improved
       THEN /\ best_loss' = loss_val
            /\ early_stop_counter' = 0
            /\ preliminary_ei' = <<initial_ei>>
            /\ best_src' = <<current_feat>>
       ELSE /\ early_stop_counter' = early_stop_counter + 1
            /\ UNCHANGED <<best_loss, preliminary_ei, best_src>>
    /\ UNCHANGED <<exc, outcome, epoch, threshold, patience, original_side, drop,
                   initial_ei, current_feat, loss, loss_val, loss_history,
                   lr_steps, sched_best, num_bad_epochs>>
    /\ UNCHANGED <<frozenVars, running_stats>>
    /\ UNCHANGED lossVars

\* line 207 with a scheduler that restarts at the initial learning rate
\* whenever the loss improves
SchedulerStepRestarts ==
    /\ pc = "sched"
    /\ pc' = "check"
    /\ sched_best' = IF IsBetter(loss_val, sched_best) THEN loss_val ELSE sched_best
    /\ num_bad_epochs' = IF Reduces(loss_val) THEN 0 ELSE BadEpochs(loss_val)
    /\ lr_steps' = IF IsBetter(loss_val, sched_best) THEN 0
                   ELSE IF Reduces(loss_val) /\ lr_steps < LrFloorSteps
                   THEN lr_steps + 1 ELSE lr_steps
    /\ UNCHANGED <<exc, outcome, epoch, threshold, patience, original_side, drop,
                   initial_ei, current_feat, loss, loss_val, loss_history,
                   best_loss, early_stop_counter, preliminary_ei, best_src>>
    /\ UNCHANGED <<frozenVars, running_stats>>
    /\ UNCHANGED lossVars

\* line 207: scheduler.step(loss_val)
SchedulerStep ==
    /\ pc = "sched"
    /\ pc' = "check"
    /\ sched_best' = IF IsBetter(loss_val, sched_best) THEN loss_val ELSE sched_best
    /\ num_bad_epochs' = IF Reduces(loss_val) THEN 0 ELSE BadEpochs(loss_val)
    /\ lr_steps' = IF Reduces(loss_val) /\ lr_steps < LrFloorSteps
                   THEN lr_steps + 1 ELSE lr_steps
    /\ UNCHANGED <<exc, outcome, epoch, threshold, patience, original_side, drop,
                   initial_ei, current_feat, loss, loss_val, loss_history,
                   best_loss, early_stop_counter, preliminary_ei, best_src>>
    /\ UNCHANGED <<frozenVars, running_stats>>
    /\ UNCHANGED lossVars

\* line 210 with "and" for "or" (the connective of line 203)
StopConditionAnd == FLt(best_loss, threshold) /\ early_stop_counter >= patience

\* the condition of line 210
StopCondition == FLt(best_loss, threshold) \/ early_stop_counter >= patience

\* the loop of line 163 without its budget ("while True")
CheckNoBudget ==
    /\ pc = "check"
    /\ IF StopCondition
       THEN /\ pc' = "return"
            /\ outcome' = "converged"
            /\ epoch' = epoch
       ELSE /\ pc' = "forward"
            /\ outcome' = outcome
            /\ epoch' = epoch + 1
    /\ UNCHANGED <<exc, threshold, patience, original_side, drop, initial_ei,
                   current_feat, loss, loss_val, loss_history, best_loss,
                   early_stop_counter, preliminary_ei, best_src, lr_steps,
                   sched_best, num_bad_epochs>>
    /\ UNCHANGED <<frozenVars, running_stats>>
    /\ UNCHANGED lossVars

\* lines 210-212 and the loop header of line 163
Check ==
    /\ pc = "check"
    /\ IF StopCondition
       THEN /\ pc' = "return"
            /\ outcome' = "converged"
            /\ epoch' = epoch
       ELSE IF epoch + 1 < EPOCHS
       THEN /\ pc' = "forward"
            /\ outcome' = outcome
            /\ epoch' = epoch + 1
       ELSE /\ pc' = "return"
            /\ outcome' = "max_epochs"
            /\ epoch' = epoch
    /\ UNCHANGED <<exc, threshold, patience, original_side, drop, initial_ei,
                   current_feat, loss, loss_val, loss_history, best_loss,
                   early_stop_counter, preliminary_ei, best_src, lr_steps,
                   sched_best, num_bad_epochs>>
    /\ UNCHANGED <<frozenVars, running_stats>>
    /\ UNCHANGED lossVars

\* line 214: reading a local that was never assigned raises UnboundLocalError
Return ==
    /\ pc = "return"
    /\ IF preliminary_ei = <<>>
       THEN pc' = "raised" /\ exc' = "UnboundLocalError"
       ELSE pc' = "returned" /\ exc' = exc
    /\ UNCHANGED <<outcome, epoch, threshold, patience, original_side, drop,
                   initial_ei, current_feat, loss, loss_val, loss_history,
                   best_loss, early_stop_counter, preliminary_ei, best_src,
                   lr_steps, sched_best, num_bad_epochs>>
    /\ UNCHANGED <<frozenVars, running_stats>>
    /\ UNCHANGED lossVars

Next ==
    \/ Forward
    \/ Backward
    \/ Bookkeep
    \/ SchedulerStep
    \/ Check
    \/ Return

Spec == Init /\ [][Next]_vars

(***************************************************************************)
(* Properties                                                              *)
(***************************************************************************)
\* the loop of line 163 has been left
Exited == pc \in {"return", "returned"} \/ exc = "UnboundLocalError"

\* the number of statements still to run, at most
Rank ==
    IF pc \in {"returned", "raised"} THEN 0
    ELSE IF pc = "return" THEN 1
    ELSE 1 + 5 * (EPOCHS - 1 - epoch)
         + (CASE pc = "check" -> 1
              [] pc = "sched" -> 2
              [] pc = "bookkeep" -> 3
              [] pc = "backward" -> 4
              [] pc = "forward" -> 5)

\* C1: for every sequence of losses, threshold and patience the call ends
\* after at least 1 and at most EPOCHS iterations: every step lowers a
\* non-negative rank, the loop is left with 1..EPOCHS iterations done, and on
\* return len(loss_history) is in 1..EPOCHS.
C1_Terminates ==
    /\ [](/\ epoch \in 0..(EPOCHS - 1)
          /\ Rank >= 0
          /\ Len(loss_history) <= EPOCHS
          /\ Exited => /\ epoch + 1 \in 1..EPOCHS
                       /\ Len(loss_history) \in 1..EPOCHS)
    /\ [][Rank' < Rank]_vars

C1_Witness ==
    /\ pc = "returned"
    /\ outcome = "max_epochs"
    /\ Len(loss_history) = EPOCHS

C3_SnapshotIsEvaluated ==
    preliminary_ei # <<>> => preliminary_ei = best_src

\* C4: the first iteration counts as an improvement whatever its loss, so
\* preliminary_ei is assigned before any termination check and every return
\* path returns a defined preliminary_ei.
C4_SnapshotDefined ==
    /\ (pc \in {"sched", "check"} /\ epoch = 0) =>
           (preliminary_ei # <<>> /\ early_stop_counter = 0)
    /\ pc = "return" => preliminary_ei # <<>>
    /\ exc # "UnboundLocalError"

\* threshold lies below every loss observed so far
BelowAll ==
    \A i \in 1..Len(loss_history) : FLt(threshold, loss_history[i])

C7_BestLossDecreases ==
    [][best_loss' # best_loss =>
          /\ best_loss'.k = "num"
          /\ best_loss.k = "inf" \/ best_loss'.v < best_loss.v - EPS]_vars

C7_Witness ==
    /\ pc = "sched"
    /\ Len(loss_history) >= 3
    /\ FLt(loss_history[1], loss_history[2])
    /\ best_loss = loss_history[Len(loss_history)]
    /\ FLt(best_loss, FSub(loss_history[1], EPS))

\* the number of evaluations at the end of h that the scheduler did not
\* count as an improvement on the best loss before them
RECURSIVE FailScan(_, _, _, _)
FailScan(h, i, best, run) ==
    IF i > Len(h) THEN run
    ELSE IF IsBetter(h[i], best) THEN FailScan(h, i + 1, h[i], 0)
    ELSE FailScan(h, i + 1, best, run + 1)

FailRun(h) == FailScan(h, 1, PosInf, 0)

\* C8 as stated: the learning rate is multiplied by 0.8 when the loss has
\* failed to improve on an earlier loss for 3 consecutive evaluations.
C8_DecaysAtThird ==
    [][(/\ pc = "sched"
        /\ FailRun(loss_history) = SchedPatience
        /\ Len(loss_history) > SchedPatience) =>
          lr_steps' = lr_steps + 1]_vars

\* C8, amended: the learning rate is multiplied by 0.8 when the loss has
\* failed to improve (by the scheduler's relative 1e-4) for more than 3
\* consecutive evaluations, that is at the 4th, and again at every 4th
\* after it; no other step changes it.  The scheduler step of an iteration
\* follows its bookkeeping, precedes its termination check and is given the
\* loss of that iteration.
C8_DecaysAfterPatience ==
    /\ [][pc = "sched" =>
            LET r == FailRun(loss_history)
            IN lr_steps' = IF r > 0 /\ r % (SchedPatience + 1) = 0
                           THEN lr_steps + 1 ELSE lr_steps]_vars
    /\ [][<<lr_steps, sched_best, num_bad_epochs>>'
              # <<lr_steps, sched_best, num_bad_epochs>> =>
            (pc = "sched" /\ pc' = "check")]_vars
    /\ [][(pc' = "sched" => pc = "bookkeep") /\ (pc' = "check" => pc = "sched")
          /\ (pc = "sched" => pc' = "check")]_vars
    /\ [](pc = "sched" =>
            /\ Len(loss_history) = epoch + 1
            /\ loss_val = loss_history[epoch + 1]
            /\ loss_val = loss)

C8_Witness ==
    /\ pc = "check"
    /\ lr_steps = 2
    /\ FailRun(loss_history) = 2 * (SchedPatience + 1)

\* C9: loss_history has one entry per completed iteration, entry i is the
\* loss computed in iteration i, and it only ever grows by an append.
C9_HistoryPerIteration ==
    /\ [](Len(loss_history) =
            IF pc \in {"forward", "backward"} \/ exc = "ValueError"
            THEN epoch ELSE epoch + 1)
    /\ [](pc \in {"bookkeep", "sched", "check"} =>
            loss_history[epoch + 1] = loss)
    /\ [][loss_history' # loss_history =>
            /\ pc = "backward"
            /\ loss_history' = Append(loss_history, loss)]_vars

C9_Witness ==
    /\ pc = "returned"
    /\ Len(loss_history) >= 3
    /\ loss_history[1] # loss_history[2]
    /\ loss_history[2] # loss_history[3]

C11_MismatchPropagates ==
    /\ [](original_side # EI_SIZE =>
            /\ pc \in {"forward", "raised"}
            /\ epoch = 0
            /\ initial_ei = 0
            /\ loss_history = <<>>
            /\ preliminary_ei = <<>>
            /\ lr_steps = 0)
    /\ [](exc = "ValueError" <=> (pc = "raised" /\ original_side # EI_SIZE))
    /\ [][(pc = "forward" /\ original_side # EI_SIZE) =>
            (pc' = "raised" /\ exc' = "ValueError")]_vars
    /\ [][pc # "raised"]_vars

C11_Witness ==
    /\ pc = "raised"
    /\ exc = "ValueError"
    /\ original_side # EI_SIZE
    /\ running_stats = 2

\* the loss of this iteration is below best_loss by more than 1e-6
SignificantlyLower ==
    /\ loss_val.k = "num"
    /\ best_loss.k # "nan"
    /\ best_loss.k = "inf" \/ loss_val.v < best_loss.v - EPS

\* C12: best_loss and the snapshot are overwritten only by the bookkeeping of
\* an iteration whose loss is below best_loss - 1e-6; the bookkeeping of any
\* other iteration leaves both alone and adds exactly 1 to the stall counter;
\* the optimizer's in-place updates of the subject tensor leave a snapshot
\* already taken as it is.
C12_OverwriteOnlyOnImprovement ==
    /\ [][<<best_loss, preliminary_ei>>' # <<best_loss, preliminary_ei>> =>
            (pc = "bookkeep" /\ SignificantlyLower)]_vars
    /\ [][(pc = "bookkeep" /\ SignificantlyLower) =>
            /\ best_loss' = loss_val
            /\ preliminary_ei' = <<initial_ei>>
            /\ early_stop_counter' = 0]_vars
    /\ [][(pc = "bookkeep" /\ ~SignificantlyLower) =>
            /\ best_loss' = best_loss
            /\ preliminary_ei' = preliminary_ei
            /\ early_stop_counter' = early_stop_counter + 1]_vars
    /\ [][initial_ei' # initial_ei =>
            (pc = "backward" /\ preliminary_ei' = preliminary_ei)]_vars

C12_Witness ==
    /\ pc = "sched"
    /\ early_stop_counter >= 1
    /\ preliminary_ei # <<>>
    /\ preliminary_ei # <<initial_ei>>
    /\ loss_val # best_loss

\* C13: the optimizer steps the subject tensor and nothing else: initial_ei
\* changes only by optimizer.step(), the target original_ei and the
\* extractor's weights never change, and of the extractor only the
\* batch-norm running statistics change, by the two train-mode feature
\* extractions of each iteration.
C13_OnlySubjectStepped ==
    /\ [](original_ei = 0 /\ weights = 0)
    /\ [][initial_ei' # initial_ei =>
            (pc = "backward" /\ initial_ei' = initial_ei + 1)]_vars
    /\ [][running_stats' # running_stats => pc = "forward"]_vars
    /\ [](running_stats =
            2 * (IF pc = "forward" THEN epoch ELSE epoch + 1))

C13_Witness ==
    /\ pc = "returned"
    /\ initial_ei >= 3
    /\ running_stats >= 6
    /\ original_ei = 0
    /\ weights = 0

\* an iteration has been booked: lines 195-200 have run at least once and
\* are not about to run again on a loss already appended
Booked ==
    \/ pc \in {"sched", "check", "return", "returned"}
    \/ exc = "UnboundLocalError"
    \/ pc \in {"forward", "backward"} /\ epoch > 0

\* C14: after every iteration best_loss is an element of loss_history and
\* lies within 1e-6 of the minimum recorded loss:
\* min(loss_history) <= best_loss <= min(loss_history) + 1e-6.
C14_BestNearMinimum ==
    Booked =>
        /\ \E i \in 1..Len(loss_history) : loss_history[i] = best_loss
        /\ \A i \in 1..Len(loss_history) :
               loss_history[i].k = "num" =>
                   (best_loss.k = "num" /\ best_loss.v <= loss_history[i].v + EPS)

\* the number of entries at the end of h that follow the last entry lower
\* by more than 1e-6 than the lowest such entry before it
RECURSIVE StallScan(_, _, _, _)
StallScan(h, i, best, run) ==
    IF i > Len(h) THEN run
    ELSE IF /\ h[i].k = "num"
            /\ best.k = "inf" \/ h[i].v < best.v - EPS
         THEN StallScan(h, i + 1, h[i], 0)
         ELSE StallScan(h, i + 1, best, run + 1)

StallRun(h) == StallScan(h, 1, PosInf, 0)

\* C15: after every iteration early_stop_counter is the number of iterations
\* completed since the last significant improvement (0 in an improving
\* one); for patience >= 1 it stays within 0..patience; no iteration that
\* follows another starts with early_stop_counter >= patience.
C15_CounterCountsStall ==
    /\ pc = "check" => early_stop_counter = StallRun(loss_history)
    /\ early_stop_counter >= 0
    /\ patience >= 1 => early_stop_counter <= patience
    /\ (pc \in {"forward", "backward", "bookkeep"} /\ epoch > 0) =>
           early_stop_counter < patience

C15_Witness ==
    /\ pc = "check"
    /\ patience = DefaultPatience
    /\ early_stop_counter = patience
    /\ StallRun(loss_history) = patience
    /\ Len(loss_history) > patience + 2

\* C16: the learning rate LR * 0.8^lr_steps never increases within a call:
\* lr_steps starts at 0, never decreases, grows by at most 1 per iteration
\* and only in the scheduler step, and is left alone by a scheduler step
\* that counts at most 3 bad evaluations.
C16_LrNeverIncreases ==
    /\ [](lr_steps >= 0 /\ lr_steps <= Len(loss_history))
    /\ [][lr_steps' = lr_steps \/ (lr_steps' = lr_steps + 1 /\ pc = "sched")]_vars
    /\ [][(pc = "sched" /\ num_bad_epochs < SchedPatience) =>
            lr_steps' = lr_steps]_vars
    /\ [][(pc = "sched" /\ IsBetter(loss_val, sched_best)) =>
            lr_steps' = lr_steps]_vars

C16_Witness ==
    /\ pc = "returned"
    /\ Len(loss_history) = EPOCHS
    /\ lr_steps >= 20

====
